---- MODULE Spec2Model ----
(***************************************************************************)
(* Model of remote-table/src/exec.rs: the RemoteTableExec plan node, its   *)
(* fetch rewrite (with_fetch), the lazily started stream of execute(), and *)
(* the filter rewriter rewrite_filters_column.                             *)
(***************************************************************************)
EXTENDS Integers, Sequences, FiniteSets, TLC

VARIABLES nodes, made_by, last_fetch, exec, rw

vars == <<nodes, made_by, last_fetch, exec, rw>>

(* ------------------------------ bounds -------------------------------- *)

\* Largest number of columns of a schema drawn for the filter rewriter.
MaxCols == 2
\* Longest filter list drawn for the filter rewriter.
MaxFilters == 1
\* Largest limit value handed to try_new / with_fetch.
MaxFetch == 1
\* Largest number of nodes alive (the constructed one and its rewrites).
MaxNodes == 2
\* Largest number of items the Connection's batch sequence yields.
MaxItems == 2

(* ------------------------------ schemas ------------------------------- *)

ColNames == {"a", "b", "c"}

\* Option of the code: None, and Some(x).
None == <<>>

Some(x) == <<x>>

\* An arrow schema, reduced to its ordered field names (duplicates allowed).
SchemasOfLen(n) == [1..n -> ColNames]

Schemas == UNION {SchemasOfLen(n) : n \in 1..MaxCols}

\* Schema::index_of: the position of the first field of that name; 0 stands
\* for the ArrowError the code propagates with `?`.
index_of(schema, name) ==
    IF \E i \in 1..Len(schema) : schema[i] = name
    THEN CHOOSE i \in 1..Len(schema) :
            /\ schema[i] = name
            /\ \A j \in 1..(i - 1) : schema[j] # name
    ELSE 0

(* ----------------------------- predicates ----------------------------- *)

\* Expr::Column(Column { relation, name }); rel is the Option of its table qualifier.
Col(n, r) == [kind |-> "col", name |-> n, rel |-> r, op |-> "", args |-> <<>>]

\* Expr::Literal
Lit(v) == [kind |-> "lit", name |-> "", rel |-> None, op |-> v, args |-> <<>>]

\* Expr::BinaryExpr and the other inner nodes: an operator over children.
Bin(o, l, r) == [kind |-> "bin", name |-> "", rel |-> None, op |-> o, args |-> <<l, r>>]

Relations == {None, Some("t")}

ColRefs == {Col(n, r) : n \in ColNames, r \in Relations}

\* column > literal, as in the filter `id > 10`
Comparisons == {Bin(">", Col(n, None), Lit("5")) : n \in ColNames}

\* (column > literal) AND (qualified column = column): a tree two levels deep
Conjunctions ==
    {Bin("AND", Bin(">", Col(n, None), Lit("5")), Bin("=", Col(n, Some("t")), Col(m, None))) :
        n \in {"a", "c"}, m \in {"b", "c"}}

Exprs == ColRefs \cup {Lit("5")} \cup Comparisons \cup Conjunctions

FilterLists == UNION {[1..n -> Exprs] : n \in 0..MaxFilters}

(* --------------------------- filter rewriter -------------------------- *)

Ok(d) == [status |-> "ok", data |-> d]

\* DataFusionError raised while rewriting one expression.
ExprErr(k) == [status |-> k, data |-> Lit("")]

\* DataFusionError raised while rewriting the filter list.
ListErr(k) == [status |-> k, data |-> <<>>]

\* Faulty variant: the two schemas exchanged.
rewrite_col_swapped(col, table_schema, transformed_table_schema) ==
    LET col_idx == index_of(table_schema, col.name)
    IN  IF col_idx = 0 THEN ExprErr("ColumnNotFound")
        ELSE IF col_idx > Len(transformed_table_schema) THEN ExprErr("panic")
        ELSE Ok(Col(transformed_table_schema[col_idx], None))

\* Faulty variant: the table qualifier is kept (Column::new in place of
\* Column::new_unqualified).
rewrite_col_keep_qualifier(col, table_schema, transformed_table_schema) ==
    LET col_idx == index_of(transformed_table_schema, col.name)
    IN  IF col_idx = 0 THEN ExprErr("ColumnNotFound")
        ELSE IF col_idx > Len(table_schema) THEN ExprErr("panic")
        ELSE Ok(Col(table_schema[col_idx], col.rel))

\* The closure of transform_down applied to Expr::Column(col): the column's
\* position in transformed_table_schema, then the name at that position in
\* table_schema, unqualified.  Schema::field panics past the last field.
rewrite_col(col, table_schema, transformed_table_schema) ==
    LET col_idx == index_of(transformed_table_schema, col.name)
    IN  IF col_idx = 0 THEN ExprErr("ColumnNotFound")
        ELSE IF col_idx > Len(table_schema) THEN ExprErr("panic")
        ELSE Ok(Col(table_schema[col_idx], None))

RECURSIVE transform_down(_, _, _)
RECURSIVE transform_children(_, _, _)

\* TreeNode::transform_down with the closure above: pre-order, the first
\* failure ends the walk; nodes that are not columns keep their own fields.
transform_down(e, table_schema, transformed_table_schema) ==
    IF e.kind = "col"
    THEN rewrite_col(e, table_schema, transformed_table_schema)
    ELSE LET cs == transform_children(e.args, table_schema, transformed_table_schema)
         IN  IF cs.status = "ok"
             THEN Ok([e EXCEPT !.args = cs.data])
             ELSE ExprErr(cs.status)

transform_children(args, table_schema, transformed_table_schema) ==
    IF args = <<>> THEN Ok(<<>>)
    ELSE LET h == transform_down(Head(args), table_schema, transformed_table_schema)
         IN  IF h.status # "ok" THEN ListErr(h.status)
             ELSE LET t == transform_children(Tail(args), table_schema,
                                              transformed_table_schema)
                  IN  IF t.status # "ok" THEN t ELSE Ok(<<h.data>> \o t.data)

RECURSIVE rewrite_filters_column_lenient(_, _, _)

\* Faulty variant: a filter that cannot be rewritten is dropped.
rewrite_filters_column_lenient(filters, table_schema, transformed_table_schema) ==
    IF filters = <<>> THEN Ok(<<>>)
    ELSE LET h == transform_down(Head(filters), table_schema, transformed_table_schema)
             t == rewrite_filters_column_lenient(Tail(filters), table_schema,
                                                 transformed_table_schema)
         IN  IF h.status # "ok" THEN t ELSE Ok(<<h.data>> \o t.data)

RECURSIVE rewrite_filters_column(_, _, _)

\* filters.into_iter().map(transform_down).collect::<DFResult<Vec<_>>>()
rewrite_filters_column(filters, table_schema, transformed_table_schema) ==
    IF filters = <<>> THEN Ok(<<>>)
    ELSE LET h == transform_down(Head(filters), table_schema, transformed_table_schema)
         IN  IF h.status # "ok" THEN ListErr(h.status)
             ELSE LET t == rewrite_filters_column(Tail(filters), table_schema,
                                                  transformed_table_schema)
                  IN  IF t.status # "ok" THEN t ELSE Ok(<<h.data>> \o t.data)

(* ------------------------ schema reconciliation ----------------------- *)

\* The Transform capabilities drawn: none, and one that names every column
\* after the remote (wire) schema.
Transforms == {None, Some("wire")}

\* crate::transform_schema: the declared schema when there is no transform,
\* else the transform's schema mapping, column by column, which may consult
\* the remote schema and may fail.
transform_schema(table_schema, transform, remote_schema) ==
    IF transform = None THEN Ok(table_schema)
    ELSE IF remote_schema = None
    THEN ListErr("SchemaMismatch")
    ELSE IF Len(remote_schema[1]) # Len(table_schema)
    THEN ListErr("SchemaMismatch")
    ELSE Ok(remote_schema[1])

\* datafusion's project_schema: the schema itself without a projection, else
\* the fields at the projected (0-based) positions; a position past the last
\* field is an error.
project_schema(schema, projection) ==
    IF projection = None THEN Ok(schema)
    ELSE IF \E k \in 1..Len(projection[1]) : projection[1][k] >= Len(schema)
    THEN ListErr("SchemaError")
    ELSE Ok([k \in 1..Len(projection[1]) |-> schema[projection[1][k] + 1]])

(* --------------------------- pushdown policy -------------------------- *)

DbTypes == {"postgres", "oracle"}

SqlTexts == {"select", "show"}

\* RemoteDbType::support_rewrite_with_filters_limit: a pure predicate of the
\* dialect and the SQL text.
support_rewrite_with_filters_limit(db_type, sql) ==
    db_type = "postgres" /\ sql = "select"

(* ------------------------------ the node ------------------------------ *)

\* Faulty variant: the declared schema is projected, not the transformed one.
try_new_unprojected(conn_options, sql, table_schema, remote_schema, projection, filters, limit, transform, conn) ==
    LET transformed_table_schema == transform_schema(table_schema, transform, remote_schema)
    IN  IF transformed_table_schema.status # "ok"
        THEN [status |-> transformed_table_schema.status, data |-> <<>>]
        ELSE LET projected_schema == project_schema(table_schema, projection)
             IN  IF projected_schema.status # "ok"
                 THEN [status |-> projected_schema.status, data |-> <<>>]
                 ELSE Ok([conn_options |-> conn_options, sql |-> sql,
                          table_schema |-> table_schema,
                          remote_schema |-> remote_schema,
                          projection |-> projection, filters |-> filters,
                          limit |-> limit, transform |-> transform, conn |-> conn,
                          plan_properties |-> projected_schema.data])

\* RemoteTableExec::try_new: the node, or the error of transform_schema or of
\* project_schema.
try_new(conn_options, sql, table_schema, remote_schema, projection, filters, limit, transform, conn) ==
    LET transformed_table_schema == transform_schema(table_schema, transform, remote_schema)
    IN  IF transformed_table_schema.status # "ok"
        THEN [status |-> transformed_table_schema.status, data |-> <<>>]
        ELSE LET projected_schema ==
                     project_schema(transformed_table_schema.data, projection)
             IN  IF projected_schema.status # "ok"
                 THEN [status |-> projected_schema.status, data |-> <<>>]
                 ELSE Ok([conn_options |-> conn_options, sql |-> sql,
                          table_schema |-> table_schema,
                          remote_schema |-> remote_schema,
                          projection |-> projection, filters |-> filters,
                          limit |-> limit, transform |-> transform, conn |-> conn,
                          plan_properties |-> projected_schema.data])

\* ExecutionPlan::schema: the schema of properties().
schema(self) == self.plan_properties

\* ExecutionPlan::fetch
fetch(self) == self.limit

\* Faulty variant: the limit is also written into the receiver.
with_fetch_in_place(self, limit) ==
    IF support_rewrite_with_filters_limit(self.conn_options, self.sql)
    THEN [receiver |-> [self EXCEPT !.limit = limit], some |-> TRUE,
          node |-> [self EXCEPT !.limit = limit]]
    ELSE [receiver |-> self, some |-> FALSE, node |-> self]

\* Faulty variant: the pushdown policy is not consulted.
with_fetch_unchecked(self, limit) ==
    [receiver |-> self, some |-> TRUE, node |-> [self EXCEPT !.limit = limit]]

\* Faulty variant: the new node is a plain clone of the receiver.
with_fetch_keeps_limit(self, limit) ==
    IF support_rewrite_with_filters_limit(self.conn_options, self.sql)
    THEN [receiver |-> self, some |-> TRUE, node |-> self]
    ELSE [receiver |-> self, some |-> FALSE, node |-> self]

\* ExecutionPlan::with_fetch(&self, limit): the receiver as the call leaves it
\* and the Option returned (node is read only when some is TRUE).
with_fetch(self, limit) ==
    IF support_rewrite_with_filters_limit(self.conn_options, self.sql)
    THEN [receiver |-> self, some |-> TRUE, node |-> [self EXCEPT !.limit = limit]]
    ELSE [receiver |-> self, some |-> FALSE, node |-> self]

(* ------------------------------ the stream ---------------------------- *)

\* The arguments of Connection::query; issued is FALSE while no call was made.
NoQuery ==
    [issued |-> FALSE, conn |-> "", conn_options |-> "", sql |-> "",
     table_schema |-> <<>>, projection |-> None, filters |-> <<>>, limit |-> None]

\* No stream: execute() was not called yet.
NoExec ==
    [pc |-> "none", node |-> 0, args |-> None, schema |-> <<>>, fetch_at_execute |-> None,
     trace |-> <<>>, queries |-> 0, sent |-> NoQuery, items |-> <<>>, wrapped |-> FALSE]

\* Faulty variant: the limit is forwarded whatever the policy says.
pushed_limit_always(conn_options, sql, limit) == limit

\* The limit build_and_transform_stream forwards to the Connection.
pushed_limit(conn_options, sql, limit) ==
    IF support_rewrite_with_filters_limit(conn_options, sql) THEN limit ELSE None

\* Faulty variant: the query is issued, with the filters as given, before the
\* schema and the filters are looked at.
setup_query_first(a) ==
    [status |-> "ok", trace |-> <<"query", "transform_schema", "rewrite_filters", "limit">>,
     sent |-> [issued |-> TRUE, conn |-> a.conn, conn_options |-> a.conn_options,
               sql |-> a.sql, table_schema |-> a.table_schema,
               projection |-> a.projection, filters |-> a.filters,
               limit |-> pushed_limit(a.conn_options, a.sql, a.limit)]]

\* build_and_transform_stream up to its await: the steps run, in order, and
\* the Connection::query call made, or the failure that ends them.
setup(a) ==
    LET transformed_table_schema ==
            transform_schema(a.table_schema, a.transform, a.remote_schema)
    IN  IF transformed_table_schema.status # "ok"
        THEN [status |-> transformed_table_schema.status,
              trace |-> <<"transform_schema">>, sent |-> NoQuery]
        ELSE
    LET rewritten_filters ==
            rewrite_filters_column(a.filters, a.table_schema, transformed_table_schema.data)
    IN  IF rewritten_filters.status # "ok"
        THEN [status |-> rewritten_filters.status,
              trace |-> <<"transform_schema", "rewrite_filters">>, sent |-> NoQuery]
        ELSE
    LET limit == pushed_limit(a.conn_options, a.sql, a.limit)
    IN  [status |-> "ok",
         trace |-> <<"transform_schema", "rewrite_filters", "limit", "query">>,
         sent |-> [issued |-> TRUE, conn |-> a.conn, conn_options |-> a.conn_options,
                   sql |-> a.sql, table_schema |-> a.table_schema,
                   projection |-> a.projection, filters |-> rewritten_filters.data,
                   limit |-> limit]]

\* ExecutionPlan::execute(0): the stream is tagged with self.schema() and
\* holds the future over clones of the node's fields; nothing has run yet.
execute(self) ==
    [NoExec EXCEPT !.pc = "created", !.args = self, !.schema = schema(self),
                   !.fetch_at_execute = fetch(self)]

(* -------------------------- construction inputs ----------------------- *)

TableSchemas == {<<"a", "b">>, <<"c", "a">>}

RemoteSchemas == {None, Some(<<"c", "b">>)}

\* None, Some(vec![1]), and a position past the last column.
Projections == {None, Some(<<1>>), Some(<<2>>)}

FilterSamples ==
    { <<>>,
      <<Bin(">", Col("a", None), Lit("5"))>>,
      <<Col("b", Some("t"))>>,
      <<Bin(">", Col("b", None), Lit("5")), Bin("=", Col("c", Some("t")), Col("b", None))>> }

Limits == {None} \cup {Some(n) : n \in 0..MaxFetch}

Conns == {"conn"}

\* No with_fetch call was made yet.
NoFetch ==
    [called |-> FALSE, receiver |-> 0, before |-> None, limit |-> None, some |-> FALSE,
     new |-> 0]

\* The filter rewriter is not under test.
RwIdle ==
    [step |-> "idle", table_schema |-> <<>>, transformed |-> <<>>, filters |-> <<>>,
     forward |-> Ok(<<>>), back |-> Ok(<<>>)]

(* ------------------------------- actions ------------------------------ *)

\* One node, as try_new returned it (inputs try_new rejects leave no node).
Init ==
    /\ \E db \in DbTypes, sql \in SqlTexts, ts \in TableSchemas, rs \in RemoteSchemas,
          pr \in Projections, fs \in FilterSamples, lim \in Limits, tr \in Transforms,
          conn \in Conns :
          LET r == try_new(db, sql, ts, rs, pr, fs, lim, tr, conn)
          IN  /\ r.status = "ok"
              /\ nodes = <<r.data>>
              /\ made_by = <<[by |-> "try_new", requested |-> lim, snapshot |-> r.data]>>
    /\ last_fetch = NoFetch
    /\ exec = NoExec
    /\ rw = RwIdle

\* The engine calls nodes[i].with_fetch(limit).
WithFetch(i, limit) ==
    LET r == with_fetch(nodes[i], limit)
    IN  /\ r.some => Len(nodes) < MaxNodes
        /\ nodes' = IF r.some
                    THEN Append([nodes EXCEPT ![i] = r.receiver], r.node)
                    ELSE [nodes EXCEPT ![i] = r.receiver]
        /\ made_by' = IF r.some
                      THEN Append(made_by, [by |-> "with_fetch", requested |-> limit,
                                            snapshot |-> r.node])
                      ELSE made_by
        /\ last_fetch' = [called |-> TRUE, receiver |-> i, before |-> nodes[i],
                          limit |-> limit, some |-> r.some,
                          new |-> IF r.some THEN Len(nodes) + 1 ELSE 0]
        /\ UNCHANGED <<exec, rw>>

\* The engine calls nodes[i].execute(0, ctx); an earlier stream is dropped.
\* (Another partition fails the assert_eq and returns no stream.)
Execute(i) ==
    /\ exec' = [execute(nodes[i]) EXCEPT !.node = i]
    /\ UNCHANGED <<nodes, made_by, last_fetch, rw>>

\* First poll of the stream: build_and_transform_stream runs to its await.
\* A setup error is the one item of stream::once; a panic delivers nothing.
PollFirst ==
    /\ exec.pc = "created"
    /\ LET r == setup(exec.args)
       IN  exec' = IF r.status = "ok"
                   THEN [exec EXCEPT !.pc = "querying", !.trace = r.trace,
                                     !.queries = @ + 1, !.sent = r.sent]
                   ELSE IF r.status = "panic"
                   THEN [exec EXCEPT !.pc = "panicked", !.trace = r.trace]
                   ELSE [exec EXCEPT !.pc = "failed", !.trace = r.trace,
                                     !.items = Append(@, r.status)]
    /\ UNCHANGED <<nodes, made_by, last_fetch, rw>>

\* Connection::query resolves to a batch sequence; with a transform it is
\* wrapped in a TransformStream.
QueryReturnsStream ==
    /\ exec.pc = "querying"
    /\ exec' = [exec EXCEPT !.pc = "streaming",
                            !.trace = Append(@, "query_returned"),
                            !.wrapped = (exec.args.transform # None)]
    /\ UNCHANGED <<nodes, made_by, last_fetch, rw>>

\* Connection::query resolves to an error: `.await?` ends the future.
QueryFails ==
    /\ exec.pc = "querying"
    /\ exec' = [exec EXCEPT !.pc = "failed",
                            !.trace = Append(@, "query_returned"),
                            !.items = Append(@, "ConnectionError")]
    /\ UNCHANGED <<nodes, made_by, last_fetch, rw>>

\* Connection::query resolves to a batch sequence and TransformStream::try_new
\* fails on it.
TransformStreamFails ==
    /\ exec.pc = "querying"
    /\ exec.args.transform # None
    /\ exec' = [exec EXCEPT !.pc = "failed",
                            !.trace = Append(@, "query_returned"),
                            !.items = Append(@, "TransformError")]
    /\ UNCHANGED <<nodes, made_by, last_fetch, rw>>

\* try_flatten polls the inner sequence, which yields a batch.
StreamBatch ==
    /\ exec.pc = "streaming"
    /\ Len(exec.items) < MaxItems
    /\ exec' = [exec EXCEPT !.items = Append(@, "batch")]
    /\ UNCHANGED <<nodes, made_by, last_fetch, rw>>

\* try_flatten polls the inner sequence, which yields an error; try_flatten
\* hands it on and keeps the inner sequence for the next poll.
StreamError ==
    /\ exec.pc = "streaming"
    /\ Len(exec.items) < MaxItems
    /\ \E e \in {"ConnectionError"} \cup (IF exec.wrapped THEN {"TransformError"} ELSE {}) :
          exec' = [exec EXCEPT !.items = Append(@, e)]
    /\ UNCHANGED <<nodes, made_by, last_fetch, rw>>

\* The inner sequence ends, and so does the flattened stream.
StreamEnd ==
    /\ exec.pc = "streaming"
    /\ exec' = [exec EXCEPT !.pc = "done"]
    /\ UNCHANGED <<nodes, made_by, last_fetch, rw>>

\* A poll after the future failed: stream::once is exhausted, the stream ends.
FailedEnd ==
    /\ exec.pc = "failed"
    /\ exec' = [exec EXCEPT !.pc = "done"]
    /\ UNCHANGED <<nodes, made_by, last_fetch, rw>>

Next ==
    \/ \E i \in 1..Len(nodes), limit \in Limits : WithFetch(i, limit)
    \/ \E i \in 1..Len(nodes) : Execute(i)
    \/ PollFirst
    \/ QueryReturnsStream
    \/ QueryFails
    \/ TransformStreamFails
    \/ StreamBatch
    \/ StreamError
    \/ StreamEnd
    \/ FailedEnd

Spec == Init /\ [][Next]_vars

(* -------------------- the filter rewriter on its own ------------------ *)

\* A filter list and two schemas, before any rewrite.
InitRewrite ==
    /\ \E ts \in Schemas, tts \in Schemas, fs \in FilterLists :
          rw = [step |-> "input", table_schema |-> ts, transformed |-> tts,
                filters |-> fs, forward |-> Ok(<<>>), back |-> Ok(<<>>)]
    /\ nodes = <<>>
    /\ made_by = <<>>
    /\ last_fetch = NoFetch
    /\ exec = NoExec

\* rewrite_filters_column(filters, table_schema, transformed_table_schema)
RewriteForward ==
    /\ rw.step = "input"
    /\ rw' = [rw EXCEPT !.step = "forward",
                        !.forward = rewrite_filters_column(rw.filters, rw.table_schema,
                                                           rw.transformed)]
    /\ UNCHANGED <<nodes, made_by, last_fetch, exec>>

\* The rewritten list rewritten back, the two schemas exchanged.
RewriteBack ==
    /\ rw.step = "forward"
    /\ rw.forward.status = "ok"
    /\ rw' = [rw EXCEPT !.step = "back",
                        !.back = rewrite_filters_column(rw.forward.data, rw.transformed,
                                                        rw.table_schema)]
    /\ UNCHANGED <<nodes, made_by, last_fetch, exec>>

NextRewrite == RewriteForward \/ RewriteBack

SpecRewrite == InitRewrite /\ [][NextRewrite]_vars

(* ------------------------- vocabulary of claims ----------------------- *)

RECURSIVE ColumnsOf(_)
RECURSIVE ColumnsOfAll(_)

\* The column references of a predicate tree, and of a list of trees.
ColumnsOf(e) == IF e.kind = "col" THEN {e} ELSE ColumnsOfAll(e.args)

ColumnsOfAll(es) == IF es = <<>> THEN {} ELSE ColumnsOf(Head(es)) \cup ColumnsOfAll(Tail(es))

\* Every column reference names a column of the schema.
AllColumnsIn(es, sch) == \A c \in ColumnsOfAll(es) : index_of(sch, c.name) # 0

RECURSIVE Unqualified(_)
RECURSIVE UnqualifiedAll(_)

\* The tree with every column reference stripped of its table qualifier.
Unqualified(e) ==
    IF e.kind = "col" THEN Col(e.name, None) ELSE [e EXCEPT !.args = UnqualifiedAll(e.args)]

UnqualifiedAll(es) ==
    IF es = <<>> THEN <<>> ELSE <<Unqualified(Head(es))>> \o UnqualifiedAll(Tail(es))

RECURSIVE SamePositions(_, _, _)
RECURSIVE SamePositionsAll(_, _, _)

\* Two trees of one shape whose column references, pairwise, name the column
\* at the same position of the schema.
SamePositions(p, q, sch) ==
    /\ p.kind = q.kind
    /\ p.op = q.op
    /\ IF p.kind = "col"
       THEN /\ index_of(sch, p.name) # 0
            /\ index_of(sch, p.name) = index_of(sch, q.name)
       ELSE SamePositionsAll(p.args, q.args, sch)

SamePositionsAll(ps, qs, sch) ==
    /\ Len(ps) = Len(qs)
    /\ \/ ps = <<>>
       \/ /\ SamePositions(Head(ps), Head(qs), sch)
          /\ SamePositionsAll(Tail(ps), Tail(qs), sch)

Distinct(sch) == \A i, j \in 1..Len(sch) : sch[i] = sch[j] => i = j

IsError(item) == item # "batch"

\* The node's pushdown policy.
Allowed(n) == support_rewrite_with_filters_limit(n.conn_options, n.sql)

\* project(transformed_schema(declared, transform, remote), projection)
ExpectedSchema(n) ==
    project_schema(transform_schema(n.table_schema, n.transform, n.remote_schema).data,
                   n.projection)

SetupSteps == <<"transform_schema", "rewrite_filters", "limit", "query", "query_returned">>

(* -------------------------------- claims ------------------------------ *)

\* C1: with_fetch never changes its receiver: every node is, after any
\* sequence of with_fetch calls, field for field the node it was when it was
\* made, and the receiver of the last call is as it was before that call.
C1_ReceiverUnchanged ==
    /\ Len(made_by) = Len(nodes)
    /\ \A i \in 1..Len(nodes) : nodes[i] = made_by[i].snapshot
    /\ last_fetch.called => nodes[last_fetch.receiver] = last_fetch.before

\* A with_fetch call returned a node whose limit differs from the receiver's.
C1_Witness ==
    /\ last_fetch.called
    /\ last_fetch.some
    /\ fetch(nodes[last_fetch.new]) # fetch(nodes[last_fetch.receiver])

\* C2: with_fetch(n) returns nothing when the pushdown policy is false for the
\* node's dialect and SQL text; when it is true it returns a new node whose
\* fetch() is n and whose other fields are the receiver's.
C2_WithFetchResult ==
    last_fetch.called =>
        LET self == last_fetch.before
        IN  IF Allowed(self)
            THEN /\ last_fetch.some
                 /\ fetch(nodes[last_fetch.new]) = last_fetch.limit
                 /\ [nodes[last_fetch.new] EXCEPT !.limit = self.limit] = self
            ELSE /\ ~last_fetch.some
                 /\ last_fetch.new = 0

\* with_fetch(Some(n)) was refused under a policy that denies pushdown.
C2_Witness ==
    /\ last_fetch.called
    /\ ~Allowed(last_fetch.before)
    /\ last_fetch.limit # None
    /\ ~last_fetch.some

\* C3: the Connection receives no limit when the policy denies pushdown and
\* exactly the node's limit when it allows it, and the node's fetch() is the
\* same before and after the execution.
C3_ForwardedLimit ==
    exec.pc # "none" =>
        LET n == nodes[exec.node]
        IN  /\ fetch(n) = exec.fetch_at_execute
            /\ exec.sent.issued =>
                   exec.sent.limit = IF Allowed(n) THEN fetch(n) ELSE None

\* A node holding a limit was executed to the end under a denying policy.
C3_Witness ==
    /\ exec.pc = "done"
    /\ exec.sent.issued
    /\ ~Allowed(nodes[exec.node])
    /\ fetch(nodes[exec.node]) # None
    /\ exec.sent.limit = None

\* C4: when a filter references a column that the transformed schema does not
\* have, the stream delivers the column-not-found error and no batch, and
\* Connection::query is never called for that execution.
C4_MissingColumnAborts ==
    (/\ exec.pc \notin {"none", "created"}
     /\ ~AllColumnsIn(exec.args.filters,
                      transform_schema(exec.args.table_schema, exec.args.transform,
                                       exec.args.remote_schema).data))
    => /\ exec.items = <<"ColumnNotFound">>
       /\ exec.queries = 0
       /\ ~exec.sent.issued
       /\ exec.pc \in {"failed", "done"}

\* A stream ended whose second filter referenced a missing column.
C4_Witness ==
    /\ exec.pc = "done"
    /\ Len(exec.args.filters) = 2
    /\ exec.items = <<"ColumnNotFound">>

\* C5 as amended: for schemas of one length, the declared one with distinct
\* column names, a filter list over the transformed schema rewritten to the
\* declared schema and back has the same shape and references, position for
\* position, the same columns of the transformed schema.
C5_RoundTripDistinct ==
    (/\ rw.step = "back"
     /\ Len(rw.table_schema) = Len(rw.transformed)
     /\ Distinct(rw.table_schema))
    => /\ rw.back.status = "ok"
       /\ SamePositionsAll(rw.filters, rw.back.data, rw.transformed)

\* C5 as stated: the same for every declared schema of that length.
C5_RoundTripAny ==
    (/\ rw.step = "back"
     /\ Len(rw.table_schema) = Len(rw.transformed))
    => /\ rw.back.status = "ok"
       /\ SamePositionsAll(rw.filters, rw.back.data, rw.transformed)

\* A round trip through a declared schema with other names than the
\* transformed one, over a tree with inner nodes.
C5_Witness ==
    /\ rw.step = "back"
    /\ Len(rw.table_schema) = Len(rw.transformed)
    /\ Distinct(rw.table_schema)
    /\ \E i \in 1..Len(rw.filters) :
          /\ rw.filters[i].kind = "bin"
          /\ rw.forward.data[i] # rw.filters[i]
          /\ rw.forward.data[i] # Unqualified(rw.filters[i])

C7_OutputSchema ==
    /\ \A i \in 1..Len(nodes) : Ok(schema(nodes[i])) = ExpectedSchema(nodes[i])
    /\ exec.pc # "none" => Ok(exec.schema) = ExpectedSchema(nodes[exec.node])

\* A stream of a node made by with_fetch, with a transform and a projection.
C7_Witness ==
    /\ exec.pc = "streaming"
    /\ made_by[exec.node].by = "with_fetch"
    /\ exec.args.transform # None
    /\ exec.args.projection # None
    /\ exec.schema # exec.args.table_schema

\* C8: the steps of stream assembly run in their order, the query is called at
\* most once per execute call and not before the first poll, and no batch is
\* delivered before the query call returned.
C8_SetupOrder ==
    exec.pc # "none" =>
        /\ Len(exec.trace) <= Len(SetupSteps)
        /\ exec.trace = SubSeq(SetupSteps, 1, Len(exec.trace))
        /\ exec.queries <= 1
        /\ exec.queries = 1 <=> Len(exec.trace) >= 4
        /\ exec.queries = 1 <=> exec.sent.issued
        /\ exec.pc = "created" => exec.queries = 0 /\ exec.trace = <<>>
        /\ (\E k \in 1..Len(exec.items) : exec.items[k] = "batch") =>
               exec.trace = SetupSteps

\* A stream ended after the query failed: it was called once.
C8_Witness ==
    /\ exec.pc = "done"
    /\ exec.items = <<"ConnectionError">>
    /\ exec.queries = 1

\* C9: on every stream no batch follows an error item.
C9_ErrorIsTerminal ==
    \A j, k \in 1..Len(exec.items) :
        (j < k /\ IsError(exec.items[j])) => IsError(exec.items[k])

\* C10: a node that with_fetch(n) returned forwards exactly n to the
\* Connection in every execution.
C10_FetchedLimitForwarded ==
    (/\ exec.sent.issued
     /\ made_by[exec.node].by = "with_fetch")
    => exec.sent.limit = made_by[exec.node].requested

\* A node returned by with_fetch(Some(n)) issued its query.
C10_Witness ==
    /\ exec.sent.issued
    /\ made_by[exec.node].by = "with_fetch"
    /\ made_by[exec.node].requested # None
    /\ exec.sent.limit = made_by[exec.node].requested

====
